---------------------------- MODULE Spec2Model ----------------------------
(* A model of the two scripts of the repository.                            *)
(*                                                                          *)
(*   data_generator.py  reads a record count from the command line, calls   *)
(*                      print_client_support() that many times and prints   *)
(*                      one empty line.                                     *)
(*   load_key.py        loads the .env file, reads SNOWFLAKE_PRIVATE_KEY    *)
(*                      and prints the repr of its first 60 characters, or  *)
(*                      exits with a message when the variable is missing.  *)
(*                                                                          *)
(* One behaviour of the model is one run of one of the two scripts; which   *)
(* script, its command line, its environment and the .env file are chosen   *)
(* in Init. Text is a sequence of characters and of tokens that stand for   *)
(* a run of characters without a newline. Random draws of                   *)
(* the libraries (Faker, random, uuid, optional_faker) are nondeterministic *)
(* choices over the values the call can return.                             *)
EXTENDS Integers, Sequences, FiniteSets, TLC

VARIABLES
    script,          \* which script this process runs
    argv,            \* sys.argv[1:], a sequence of texts
    environ,         \* SNOWFLAKE_PRIVATE_KEY in the environment the process is started with
    os_environ,      \* os.environ.get("SNOWFLAKE_PRIVATE_KEY") inside the process
    dotenv,          \* value of SNOWFLAKE_PRIVATE_KEY in the .env file, if any
    pc,              \* position of the script
    total_count,     \* data_generator.py: total_count
    iter,            \* data_generator.py: iterations of the for loop done
    inventory,       \* data_generator.py: the module-level list
    client_support,  \* data_generator.py: the dict of the call in progress, else None
    pem,             \* load_key.py: pem
    stdout,          \* everything written to standard output, as text
    stderr,          \* everything written to standard error, as tokens
    exitcode         \* exit status of the process, None while it runs

vars == <<script, argv, environ, os_environ, dotenv, pc, total_count, iter, inventory,
          client_support, pem, stdout, stderr, exitcode>>

\* Python values that may be None: None itself, or Some(v) for a value v.
None == [isNone |-> TRUE]

Some(v) == [isNone |-> FALSE, value |-> v]

-----------------------------------------------------------------------------
(* Bounds of the model.                                                     *)

MaxCount == 2      \* largest record count (and largest digit) on the command line
MaxArgLen == 2     \* longest command-line argument, in characters
NumUuids == 1      \* distinct values uuid.uuid4() can return
NumStates == 2     \* distinct values fake.state_abbr() can return
PostalSpan == 1    \* width of each state's postal-code range
MaxKeyLen == 61    \* longest private key in the environment
NumPatterns == 2   \* distinct key contents of each length

-----------------------------------------------------------------------------
(* Text helpers.                                                            *)

NL == "\n"

\* The number of newline characters in a text.
RECURSIVE CountNL(_)
CountNL(t) == IF t = <<>> THEN 0
              ELSE (IF Head(t) = NL THEN 1 ELSE 0) + CountNL(Tail(t))

\* The lines of a text: the pieces that end at each newline (the newline
\* itself left out), in order. Text after the last newline is not a line.
RECURSIVE LinesFrom(_, _)
LinesFrom(t, cur) ==
    IF t = <<>> THEN <<>>
    ELSE IF Head(t) = NL THEN <<cur>> \o LinesFrom(Tail(t), <<>>)
    ELSE LinesFrom(Tail(t), Append(cur, Head(t)))

Lines(t) == LinesFrom(t, <<>>)

\* What follows the last newline of a text (an unterminated last line).
RECURSIVE Unterminated(_, _)
Unterminated(t, cur) ==
    IF t = <<>> THEN cur
    ELSE IF Head(t) = NL THEN Unterminated(Tail(t), <<>>)
    ELSE Unterminated(Tail(t), Append(cur, Head(t)))

-----------------------------------------------------------------------------
(* data_generator.py: the command line and int().                           *)

DigitChars == <<"0", "1", "2", "3", "4", "5", "6", "7", "8", "9">>

IsDigit(c) == \E k \in 1..10 : DigitChars[k] = c

DigitVal(c) == (CHOOSE k \in 1..10 : DigitChars[k] = c) - 1

RECURSIVE DecimalValue(_, _)
DecimalValue(ds, acc) ==
    IF ds = <<>> THEN acc
    ELSE DecimalValue(Tail(ds), acc * 10 + DigitVal(Head(ds)))

\* Mutant of PyInt: a text that is no integer is read as 0.
PyInt_lenient(s) ==
    IF s # <<>> /\ \A k \in 1..Len(s) : IsDigit(s[k])
    THEN [ok |-> TRUE, val |-> DecimalValue(s, 0)]
    ELSE [ok |-> TRUE, val |-> 0]

\* int(s) for a text s: an optional sign followed by one or more decimal
\* digits gives the number; anything else raises ValueError. (int() also
\* skips surrounding whitespace and takes underscores between digits; the
\* command lines of the model hold neither.)
PyInt(s) ==
    LET signed == s # <<>> /\ Head(s) \in {"-", "+"}
        digits == IF signed THEN Tail(s) ELSE s
    IN  IF digits # <<>> /\ \A k \in 1..Len(digits) : IsDigit(digits[k])
        THEN [ok  |-> TRUE,
              val |-> IF signed /\ Head(s) = "-"
                      THEN 0 - DecimalValue(digits, 0)
                      ELSE DecimalValue(digits, 0)]
        ELSE [ok |-> FALSE, val |-> 0]

\* The characters command-line arguments are made of in this model.
ArgChars == {"-", "x"} \cup {DigitChars[d + 1] : d \in 0..MaxCount}

ArgStrings == UNION {[1..L -> ArgChars] : L \in 0..MaxArgLen}

\* The command lines of the model: no argument, or one argument that int()
\* rejects or reads as a count of at most MaxCount.
Argvs == {<<>>} \cup
         {<<s>> : s \in {t \in ArgStrings : ~PyInt(t).ok \/ PyInt(t).val <= MaxCount}}


\* Mutant of RangeLen: the loop runs |n| times.
RangeLen_abs(n) == IF n < 0 THEN 0 - n ELSE n

\* len(range(n)): the number of iterations of `for _ in range(n)`.
RangeLen(n) == IF n > 0 THEN n ELSE 0

-----------------------------------------------------------------------------
(* Process-level behaviour of the interpreter.                              *)

\* print(*args): the arguments separated by one space, then a newline.
RECURSIVE JoinSpace(_)
JoinSpace(args) ==
    IF args = <<>> THEN <<>>
    ELSE IF Len(args) = 1 THEN Head(args)
    ELSE Head(args) \o <<" ">> \o JoinSpace(Tail(args))

PyPrint(args) == JoinSpace(args) \o <<NL>>

\* An exception nobody catches: the traceback goes to standard error and the
\* process exits with status 1.
Unhandled(exc) == [code |-> 1, err |-> <<"Traceback", exc, NL>>]

\* Mutant of SysExit: sys.exit() without the message, status 0.
SysExit_silent(msg) == [code |-> 0, err |-> <<>>]

\* sys.exit(msg) with a string: the message goes to standard error and the
\* process exits with status 1.
SysExit(msg) == [code |-> 1, err |-> <<msg, NL>>]

\* load_dotenv(): a variable of the .env file is put in os.environ unless
\* os.environ already has it (override is False); a file without the
\* variable, or no file, changes nothing.
load_dotenv(env, file) == IF env = None THEN file ELSE env

-----------------------------------------------------------------------------
(* data_generator.py: the record.                                           *)

InventoryList ==
    << "Peugeot 208", "Peugeot 3008", "Citroen C3", "Renault Megane",
       "Fiat 500e", "Maserati Grecale Folgore", "Renault Mégane E-Tech",
       "Peugeot e-208", "Peugeot e-3008", "Citroen ë-C4", "Citroen Ami",
       "DS 3 E-Tense", "DS 4 E-Tense", "DS 7 E-Tense", "DS 9 E-Tense",
       "Fiat 600e", "Jeep Avenger EV", "Opel Mokka-e", "Opel Corsa-e",
       "Opel Astra Electric", "Peugeot e-2008", "Citroen ë-Berlingo",
       "Fiat E-Ulysse", "Peugeot e-Rifter", "Jeep Recon EV", "Jeep Wagoneer S",
       "Maserati GranTurismo Folgore", "Maserati MC20 Folgore", "Opel Zafira-e Life" >>

\* The keys of client_support, in the order the dict literal inserts them.
FieldOrder == << "txid", "rfid", "item", "purchase_time", "expiration_time",
                 "days", "name", "address", "phone", "email",
                 "emergency_contact" >>

Fields == {FieldOrder[k] : k \in 1..Len(FieldOrder)}

NullableFields == {"address", "phone", "email", "emergency_contact"}

\* uuid.uuid4(): one of the identifiers the generator can return. The draw
\* is random: nothing stops two calls from returning the same identifier.
uuid4 == {<<"uuid", u>> : u \in 1..NumUuids}

\* random.getrandbits(k), as its hexadecimal digits (k is a multiple of 4):
\* the two extreme values, all bits clear and all bits set.
getrandbits(k) == {[j \in 1..(k \div 4) |-> d] : d \in {0, 15}}

HexDigits == << "0", "1", "2", "3", "4", "5", "6", "7",
                "8", "9", "a", "b", "c", "d", "e", "f" >>

RECURSIVE StripZeros(_)
StripZeros(ds) == IF Len(ds) > 1 /\ Head(ds) = 0 THEN StripZeros(Tail(ds)) ELSE ds

\* hex(v): the prefix 0x and the digits of v without leading zeros.
hex(v) == <<"0", "x">> \o [j \in 1..Len(StripZeros(v)) |-> HexDigits[StripZeros(v)[j] + 1]]

\* Mutant of random_element: the draw can also give a model that is not in
\* the list.
random_element_foreign(elements) ==
    {elements[k] : k \in 1..Len(elements)} \cup {"Tesla Model 3"}

\* fake.random_element(elements): any element of the list.
random_element(elements) == {elements[k] : k \in 1..Len(elements)}

\* Mutant of random_int: the upper bound is excluded.
random_int_exclusive(min, max) == min..(max - 1)

\* fake.random_int(min, max): any integer from min to max, both included.
random_int(min, max) == min..max

\* fake.state_abbr(): one of the state abbreviations Faker knows.
state_abbr == {<<"state", s>> : s \in 1..NumStates}

\* Faker's states_postcode: the range of postal codes of a state.
states_postcode(state) == [lo |-> 100 * state[2], hi |-> 100 * state[2] + PostalSpan - 1]

\* fake.postalcode_in_state(state): a postal code in the range of that state.
postalcode_in_state(state) == states_postcode(state).lo..states_postcode(state).hi

\* The other Faker providers return text whose content no part of the
\* program looks at: one token stands for each.
name == {"<name>"}
street_address == {"<street_address>"}
city == {"<city>"}
phone_number == {"<phone_number>"}
email == {"<email>"}

\* datetime.utcnow().isoformat() and date(2023, 6, 1).isoformat().
utcnow_isoformat == "<utcnow>"
expiration_isoformat == "2023-06-01"

\* Mutant of none_or: the value is always kept.
none_or_never(value) == {Some(value)}

\* fake.none_or(value): None or the value, decided by a draw of its own.
none_or(value) == {None, Some(value)}

\* Mutant of AddressDicts: the state field is drawn a second time.
AddressDicts_redrawn(state) ==
    {[street_address |-> a, city |-> c, state |-> s2, postalcode |-> p] :
        a \in street_address, c \in city, s2 \in state_abbr,
        p \in postalcode_in_state(state)}

\* Lines 36-38: the dicts the address argument can be, for the state drawn
\* at line 28.
AddressDicts(state) ==
    {[street_address |-> a, city |-> c, state |-> state, postalcode |-> p] :
        a \in street_address, c \in city, p \in postalcode_in_state(state)}

\* Line 41: the dicts the emergency_contact argument can be.
ContactDicts == {[name |-> n, phone |-> p] : n \in name, p \in phone_number}

\* json.dumps(d) of the record: one object on one line. The keys are written
\* in insertion order; the text of the values is left out, each key token
\* stands for the key and its value.
Dumps(d) == <<"{">> \o SelectSeq(FieldOrder, LAMBDA f : f \in DOMAIN d) \o <<"}">>

\* Mutant of RecordLine: the newline is left out.
RecordLine_unterminated(d) == Dumps(d)

\* Line 43: d = json.dumps(client_support) + '\n'.
RecordLine(d) == Dumps(d) \o <<NL>>

-----------------------------------------------------------------------------
(* load_key.py: keys and the preview.                                       *)

PreviewLen == 60

KeyAlphabet == <<"A", "B", NL>>

\* A key of length L; the pattern p decides which character is where.
MkKey(L, p) == [j \in 1..L |-> KeyAlphabet[((j * p) % 3) + 1]]

Keys == {MkKey(L, p) : L \in 0..MaxKeyLen, p \in 1..NumPatterns}

\* The values the .env file gives the variable in this model.
DotenvKeys == {MkKey(L, 1) : L \in {0, MaxKeyLen}}

\* pem[:n]: the first n characters, or all of pem when it is shorter.
Slice(s, n) == SubSeq(s, 1, IF Len(s) < n THEN Len(s) ELSE n)

\* repr(s) of a str without quotes in it: the text between single quotes,
\* a newline written as backslash and n.
RECURSIVE Escape(_)
Escape(s) ==
    IF s = <<>> THEN <<>>
    ELSE (IF Head(s) = NL THEN <<"\\", "n">> ELSE <<Head(s)>>) \o Escape(Tail(s))

Repr(s) == <<"'">> \o Escape(s) \o <<"'">>

\* Mutant of IsMissing: `if not pem`, which also takes the empty string.
IsMissing_falsy(p) == IF p = None THEN TRUE ELSE p.value = <<>>

\* Line 6: pem is None.
IsMissing(p) == p = None

-----------------------------------------------------------------------------
(* The state machine.                                                       *)

Init ==
    /\ script \in {"data_generator", "load_key"}
    /\ argv \in (IF script = "data_generator" THEN Argvs ELSE {<<>>})
    /\ environ \in (IF script = "load_key" THEN {None} \cup {Some(k) : k \in Keys}
                    ELSE {None})
    /\ dotenv \in (IF script = "load_key" THEN {None} \cup {Some(k) : k \in DotenvKeys}
                   ELSE {None})
    /\ os_environ = environ
    /\ pc = "start"
    /\ total_count = 0
    /\ iter = 0
    /\ inventory = InventoryList
    /\ client_support = None
    /\ pem = None
    /\ stdout = <<>>
    /\ stderr = <<>>
    /\ exitcode = None

\* data_generator.py:11, load_key.py:4: load_dotenv().
LoadDotenv ==
    /\ pc = "start"
    /\ os_environ' = load_dotenv(os_environ, dotenv)
    /\ pc' = "main"
    /\ UNCHANGED <<script, argv, environ, dotenv, total_count, iter, inventory,
                   client_support, pem, stdout, stderr, exitcode>>

\* data_generator.py:48-49: args = sys.argv[1:]; total_count = int(args[0]).
\* args[0] of an empty list raises IndexError, int() of a text that is no
\* integer raises ValueError; nothing catches either.
ParseCount ==
    /\ script = "data_generator" /\ pc = "main"
    /\ IF argv = <<>>
       THEN /\ pc' = "done"
            /\ exitcode' = Some(Unhandled("IndexError").code)
            /\ stderr' = stderr \o Unhandled("IndexError").err
            /\ UNCHANGED <<total_count, iter>>
       ELSE IF ~PyInt(argv[1]).ok
       THEN /\ pc' = "done"
            /\ exitcode' = Some(Unhandled("ValueError").code)
            /\ stderr' = stderr \o Unhandled("ValueError").err
            /\ UNCHANGED <<total_count, iter>>
       ELSE /\ pc' = "loop"
            /\ total_count' = PyInt(argv[1]).val
            /\ iter' = 0
            /\ UNCHANGED <<exitcode, stderr>>
    /\ UNCHANGED <<script, argv, environ, os_environ, dotenv, inventory, client_support,
                   pem, stdout>>

\* data_generator.py:50-51 and 26-44: the loop takes its next iteration and
\* calls print_client_support(), which builds the dict and writes its line.
\* Every argument of none_or is evaluated before none_or draws.
print_client_support ==
    /\ script = "data_generator" /\ pc = "loop"
    /\ iter < RangeLen(total_count)
    /\ \E state \in state_abbr, txid \in uuid4, bits \in getrandbits(96),
          nm \in name, item \in random_element(inventory) :
       \E days \in random_int(1, 7) :
       \E addr \in AddressDicts(state), ph \in phone_number, em \in email,
          ec \in ContactDicts :
       \E address \in none_or(addr), phone \in none_or(ph),
          mail \in none_or(em), contact \in none_or(ec) :
          /\ client_support' =
                [txid              |-> Some(txid),
                 rfid              |-> Some(hex(bits)),
                 item              |-> Some(item),
                 purchase_time     |-> Some(utcnow_isoformat),
                 expiration_time   |-> Some(expiration_isoformat),
                 days              |-> Some(days),
                 name              |-> Some(nm),
                 address           |-> address,
                 phone             |-> phone,
                 email             |-> mail,
                 emergency_contact |-> contact]
          /\ stdout' = stdout \o RecordLine(client_support')
    /\ pc' = "return"
    /\ UNCHANGED <<script, argv, environ, os_environ, dotenv, total_count, iter,
                   inventory, pem, stderr, exitcode>>

\* data_generator.py:44 to 50: print_client_support() returns, its local
\* dict is dropped with its frame, and the loop has done one more iteration.
Return ==
    /\ script = "data_generator" /\ pc = "return"
    /\ client_support' = None
    /\ iter' = iter + 1
    /\ pc' = "loop"
    /\ UNCHANGED <<script, argv, environ, os_environ, dotenv, total_count,
                   inventory, pem, stdout, stderr, exitcode>>

\* data_generator.py:52: print(''), then the script ends with status 0.
PrintBlank ==
    /\ script = "data_generator" /\ pc = "loop"
    /\ iter >= RangeLen(total_count)
    /\ stdout' = stdout \o PyPrint(<< <<>> >>)
    /\ pc' = "done"
    /\ exitcode' = Some(0)
    /\ UNCHANGED <<script, argv, environ, os_environ, dotenv, total_count, iter, inventory,
                   client_support, pem, stderr>>

\* load_key.py:5: pem = os.getenv("SNOWFLAKE_PRIVATE_KEY").
GetEnv ==
    /\ script = "load_key" /\ pc = "main"
    /\ pem' = os_environ
    /\ pc' = "check"
    /\ UNCHANGED <<script, argv, environ, os_environ, dotenv, total_count, iter, inventory,
                   client_support, stdout, stderr, exitcode>>

\* load_key.py:6-7: sys.exit("SNOWFLAKE_PRIVATE_KEY not set").
ExitNotSet ==
    /\ script = "load_key" /\ pc = "check"
    /\ IsMissing(pem)
    /\ stderr' = stderr \o SysExit("SNOWFLAKE_PRIVATE_KEY not set").err
    /\ exitcode' = Some(SysExit("SNOWFLAKE_PRIVATE_KEY not set").code)
    /\ pc' = "done"
    /\ UNCHANGED <<script, argv, environ, os_environ, dotenv, total_count, iter, inventory,
                   client_support, pem, stdout>>

\* load_key.py:9: print("First 60 chars:", repr(pem[:60])), then the script
\* ends with status 0.
PrintPreview ==
    /\ script = "load_key" /\ pc = "check"
    /\ ~IsMissing(pem)
    /\ stdout' = stdout \o PyPrint(<< <<"First 60 chars:">>,
                                      Repr(Slice(pem.value, PreviewLen)) >>)
    /\ exitcode' = Some(0)
    /\ pc' = "done"
    /\ UNCHANGED <<script, argv, environ, os_environ, dotenv, total_count, iter, inventory,
                   client_support, pem, stderr>>

Next ==
    \/ LoadDotenv
    \/ ParseCount
    \/ print_client_support
    \/ Return
    \/ PrintBlank
    \/ GetEnv
    \/ ExitNotSet
    \/ PrintPreview

Spec == Init /\ [][Next]_vars

\* The interpreter runs a script to its end: a step that can be taken is taken.
FairSpec == Spec /\ WF_vars(Next)

-----------------------------------------------------------------------------
(* Vocabulary of the properties.                                            *)

Done == pc = "done"

\* The process has not ended and can take a step: with the strictly
\* growing position (pc, iter) this is what makes every run end.
Running == pc # "done" /\ exitcode = None /\ ENABLED Next

\* A text that is an integer literal: an optional sign, then digits only.
IsIntegerText(s) ==
    \E sign \in {<<>>, <<"-">>, <<"+">>} :
        /\ Len(s) > Len(sign)
        /\ SubSeq(s, 1, Len(sign)) = sign
        /\ \A k \in (Len(sign) + 1)..Len(s) : s[k] \in {DigitChars[j] : j \in 1..10}

\* The generator driver was started with an integer count argument.
HasCount == script = "data_generator" /\ argv # <<>> /\ IsIntegerText(argv[1])

CountArg == PyInt(argv[1]).val

\* A line that holds one JSON object and nothing else.
IsRecordLine(l) == Len(l) >= 2 /\ l[1] = "{" /\ l[Len(l)] = "}"

\* A record is being emitted: print_client_support() has built and written it.
Emitted == script = "data_generator" /\ client_support # None

\* The loop is about to call print_client_support().
AboutToGenerate ==
    script = "data_generator" /\ pc = "loop" /\ iter < RangeLen(total_count)

-----------------------------------------------------------------------------
(* The properties.                                                          *)

\* C1: for every count argument n >= 0 the generator driver writes exactly n
\* record lines (each a non-blank JSON object ended by one newline), then
\* exactly one blank line and nothing after it, and ends with exit code 0.
\* While it runs it has written only complete record lines, at most n, and
\* it can always take its next step.
C1_CountedOutput ==
    (HasCount /\ CountArg >= 0) =>
        LET ls == Lines(stdout)
        IN  /\ Unterminated(stdout, <<>>) = <<>>
            /\ ~Done => /\ Running
                        /\ Len(ls) <= CountArg
                        /\ \A k \in 1..Len(ls) : IsRecordLine(ls[k])
            /\ Done => /\ Len(ls) = CountArg + 1
                       /\ \A k \in 1..CountArg : IsRecordLine(ls[k])
                       /\ ls[CountArg + 1] = <<>>
                       /\ CountNL(stdout) = CountArg + 1
                       /\ exitcode = Some(0)

C1_Witness ==
    /\ HasCount /\ CountArg >= 2 /\ Done
    /\ Len(Lines(stdout)) = CountArg + 1

\* C2: the item of every emitted record is an entry of the fixed inventory
\* list, the list has exactly 29 entries, and it is the same list in every
\* state, however many records were generated.
C2_ItemInInventory ==
    /\ inventory = InventoryList
    /\ Len(inventory) = 29
    /\ Emitted => \E k \in 1..29 : client_support.item = Some(InventoryList[k])

C2_Witness ==
    /\ Emitted /\ iter >= 1
    /\ client_support.item = Some(InventoryList[29])

\* C3: the days of every emitted record is an integer from 1 to 7, and a
\* record with days 1 and a record with days 7 can both be generated.
C3_DaysInRange ==
    /\ Emitted => /\ client_support.days.value \in Int
                  /\ 1 <= client_support.days.value
                  /\ client_support.days.value <= 7
    /\ AboutToGenerate =>
          /\ ENABLED (print_client_support /\ client_support'.days = Some(1))
          /\ ENABLED (print_client_support /\ client_support'.days = Some(7))

C3_Witness == Emitted /\ client_support.days = Some(7)

\* C4: in every emitted record with an address, the postal code lies in the
\* postal-code range of the state stored in that address.
C4_PostalcodeOfState ==
    (Emitted /\ client_support.address # None) =>
        LET a == client_support.address.value
        IN  /\ a.state \in state_abbr
            /\ states_postcode(a.state).lo <= a.postalcode
            /\ a.postalcode <= states_postcode(a.state).hi

C4_Witness ==
    /\ Emitted /\ client_support.address # None
    /\ client_support.address.value.state = <<"state", NumStates>>

\* C6: every emitted record has the eleven fields, and so does its line;
\* the seven non-nullable fields are never null; and whenever a record is
\* about to be generated, each of the 16 null/non-null combinations of
\* address, phone, email and emergency_contact can be the one generated.
C6_FieldsAndNullables ==
    /\ Emitted =>
          /\ DOMAIN client_support =
                {"txid", "rfid", "item", "purchase_time", "expiration_time",
                 "days", "name", "address", "phone", "email", "emergency_contact"}
          /\ \A f \in {"txid", "rfid", "item", "purchase_time",
                       "expiration_time", "days", "name"} :
                ~client_support[f].isNone
          /\ Lines(stdout)[Len(Lines(stdout))] =
                <<"{", "txid", "rfid", "item", "purchase_time", "expiration_time",
                  "days", "name", "address", "phone", "email",
                  "emergency_contact", "}">>
    /\ AboutToGenerate =>
          \A mask \in [{"address", "phone", "email", "emergency_contact"} -> BOOLEAN] :
              ENABLED (/\ print_client_support
                       /\ \A f \in DOMAIN mask : client_support'[f].isNone = mask[f])

C6_Witness ==
    /\ Emitted
    /\ client_support.address = None /\ client_support.phone # None
    /\ client_support.email = None /\ client_support.emergency_contact # None

\* C7: started with no count argument, or with one that is no integer, the
\* generator driver writes nothing to standard output at any time, keeps
\* running until it ends, and ends with a non-zero exit status and a
\* traceback on standard error.
C7_BadCountFails ==
    (script = "data_generator" /\ (argv = <<>> \/ ~IsIntegerText(argv[1]))) =>
        /\ stdout = <<>>
        /\ client_support = None
        /\ ~Done => Running
        /\ Done => /\ exitcode # None /\ exitcode # Some(0)
                   /\ stderr # <<>> /\ stderr[1] = "Traceback"

C7_Witness ==
    /\ script = "data_generator" /\ Done
    /\ argv = << <<"1", "x">> >>
    /\ exitcode = Some(1)

\* C8, as claimed: whenever the process is started without
\* SNOWFLAKE_PRIVATE_KEY in its environment, the key-preview script ends
\* with a non-zero status and the diagnostic, and prints no preview.
C8_AsClaimed ==
    (script = "load_key" /\ environ = None) =>
        /\ stdout = <<>>
        /\ Done => /\ exitcode # None /\ exitcode # Some(0)
                   /\ stderr = <<"SNOWFLAKE_PRIVATE_KEY not set", NL>>

\* C8, amended: when SNOWFLAKE_PRIVATE_KEY is neither in the environment of
\* the process nor given by the .env file that load_dotenv() reads, the
\* key-preview script ends with a non-zero status and the diagnostic
\* "SNOWFLAKE_PRIVATE_KEY not set", and never prints the preview line.
C8_UnsetEverywhereFails ==
    (script = "load_key" /\ environ = None /\ dotenv = None) =>
        /\ stdout = <<>>
        /\ ~Done => Running
        /\ Done => /\ exitcode # None /\ exitcode # Some(0)
                   /\ stderr = <<"SNOWFLAKE_PRIVATE_KEY not set", NL>>

C8_Witness ==
    /\ script = "load_key" /\ environ = None /\ dotenv = None /\ Done
    /\ exitcode = Some(1)

\* C9: when SNOWFLAKE_PRIVATE_KEY is set in the environment to a text k, the
\* empty text included, the key-preview script never takes the failure exit
\* and ends having printed "First 60 chars:" and the repr of the first
\* min(60, len(k)) characters of k; the failure exit is taken only when the
\* variable is absent.
C9_PreviewIsPrefix ==
    script = "load_key" =>
        /\ environ # None =>
              LET k == environ.value
                  n == IF Len(k) < 60 THEN Len(k) ELSE 60
                  prefix == [j \in 1..n |-> k[j]]
              IN  /\ stderr = <<>>
                  /\ ~Done => Running
                  /\ Done => /\ exitcode = Some(0)
                             /\ stdout = <<"First 60 chars:", " ">> \o Repr(prefix) \o <<NL>>
        /\ (Done /\ exitcode # Some(0)) => environ = None

C9_Witness ==
    /\ script = "load_key" /\ Done /\ environ # None
    /\ Len(environ.value) > 60
    /\ Len(stdout) > 60

\* C10: started with a negative count argument, the generator driver does
\* not fail: it emits no record, writes the single blank line and ends with
\* exit code 0, as it does for 0.
C10_NegativeCountIsEmpty ==
    (HasCount /\ CountArg < 0) =>
        /\ client_support = None
        /\ stderr = <<>>
        /\ ~Done => Running /\ stdout = <<>>
        /\ Done => stdout = <<NL>> /\ exitcode = Some(0)

C10_Witness == HasCount /\ CountArg < 0 /\ Done /\ stdout = <<NL>>

=============================================================================
